---- MODULE Spec2Model ----
(***************************************************************************)
(* A model of sccache_config_checker.py: one run of main(), a fixed        *)
(* sequence of checks whose external calls (subprocesses, the config file, *)
(* TCP connects) have nondeterministic outcomes.                           *)
(*                                                                         *)
(* Text is modelled as a tuple of tokens (a token is one character or one  *)
(* indivisible word), so the empty string is <<>>.  An optional value      *)
(* (Python's None or a value) is a tuple of length 0 or 1.                 *)
(***************************************************************************)
EXTENDS Integers, Sequences, FiniteSets, TLC

VARIABLES
    environ,         \* os.environ: variable name -> optional text
    fs,              \* the file system: path -> file
    pc,              \* the statement of main() that runs next
    calls,           \* the subprocesses run by the latest step, in order
    lines,           \* the PASS/FAIL lines printed by the latest step
    result,          \* the (success, text) pair the latest helper returned
    connects,        \* the TCP connections attempted, in order
    env_checks,      \* main's three tallied lists
    config_checks,
    runtime_checks,
    total_checks,    \* main's summary counts
    passed_checks,
    exit_status      \* the process's exit status: None while it runs

vars == <<environ, fs, pc, calls, lines, result, connects, env_checks,
          config_checks, runtime_checks, total_checks, passed_checks,
          exit_status>>

----------------------------------------------------------------------------
(* Bounds of the model.                                                    *)

\* Longest version text (after the optional prefix) bwrap prints.
MaxVerLen == 6
\* Longest version text drawn inside a whole run of main().
MaxRunVerLen == 1
\* Longest output of pgrep, in characters.
MaxPgrepLen == 2

----------------------------------------------------------------------------
(* Values.                                                                 *)

None == <<>>
Some(v) == <<v>>
\* dict.get(key, default) on an optional value.
OrElse(o, d) == IF o = <<>> THEN d ELSE o[1]

\* Python's truthiness of an optional text: None and "" are falsy.
Truthy(o) == o # None /\ o # Some(<<>>)

RECURSIVE Sum(_)
\* sum() of a list of booleans.
Sum(bs) == IF bs = <<>> THEN 0
           ELSE (IF Head(bs) THEN 1 ELSE 0) + Sum(Tail(bs))

\* All token sequences over alphabet A of length at most n.
TextsUpTo(A, n) == UNION {[1..k -> A] : k \in 0..n}

----------------------------------------------------------------------------
(* print_status                                                            *)

\* print_status(message, status, value): the PASS/FAIL line printed, with
\* its label, its status (which is also what is returned) and the optional
\* observed value.
Line(message, status, value) ==
    [message |-> message, status |-> status, value |-> value]

----------------------------------------------------------------------------
(* subprocess.run                                                          *)

\* A finished subprocess call: the command, the exception raised on launch
\* ("" when the process ran), its exit status and its standard output.
Call(cmd, raised, rc, stdout) ==
    [cmd |-> cmd, raised |-> raised, rc |-> rc, stdout |-> stdout]

\* subprocess.run(..., check=True) raises CalledProcessError on a non-zero
\* exit status; the exception a call ends in, "" when it returns.
Raised(c) == IF c.raised # "" THEN c.raised
             ELSE IF c.rc # 0 THEN "CalledProcessError"
             ELSE ""

\* The outcomes of running a command: a launch error among `errors` (the
\* binary is not on PATH: FileNotFoundError; it is there but may not be
\* executed: PermissionError), exit status 1, or exit status 0 with one
\* of `outs` printed.
Outcomes(cmd, errors, outs) ==
    {Call(cmd, e, 0, <<>>) : e \in errors}
    \cup {Call(cmd, "", 1, <<>>)}
    \cup {Call(cmd, "", 0, o) : o \in outs}

\* No call: the place of a subprocess that is never run.
NoCall == Call("", "", 0, <<>>)

----------------------------------------------------------------------------
(* The environment and check_env_var                                       *)

\* URL texts: "http://" is the scheme with its "//", then the tokens of the
\* network location.
UrlGood     == <<"http://", "sched", ":", "8", "0">>
UrlPortZero == <<"http://", "sched", ":", "0">>
UrlNoPort   == <<"http://", "sched">>
UrlNoHost   == <<"http://", ":", "8", "0">>
UrlBadPort  == <<"http://", "sched", ":", "8", "x">>
UrlNoScheme == <<"sched", ":", "8", "0">>

UrlTexts == {<<>>, UrlGood, UrlPortZero, UrlNoPort, UrlNoHost, UrlBadPort,
             UrlNoScheme}

CustomPath  == <<"/etc/sccache.toml">>
\* str(Path.home() / ".config" / "sccache" / "config")
DefaultPath == <<"~/.config/sccache/config">>
Paths == {CustomPath, DefaultPath}

\* The environments a run starts in; the two optional variables are set
\* together or not at all.
Environments ==
    {e \in [SCCACHE_NO_DAEMON     : {None, Some(<<"1">>)},
            SCCACHE_DIST_AUTH     : {Some(<<"token">>), Some(<<"basic">>)},
            SCCACHE_DIST_TOKEN    : {None, Some(<<"abc">>), Some(<<"xyz">>)},
            SCCACHE_SCHEDULER_URL : {None} \cup {Some(u) : u \in UrlTexts},
            SCCACHE_LOG           : {None, Some(<<"debug">>)},
            SCCACHE_CONF          : {None, Some(CustomPath)}] :
        (e.SCCACHE_LOG = None) <=> (e.SCCACHE_CONF = None)}

\* check_env_var(var_name, expected_value, optional): the status returned
\* and the PASS/FAIL lines printed (an optional variable prints none).  The
\* label of a line is the variable's name, without the " is set" the code
\* adds when no value is expected.
check_env_var(env, var_name, expected_value, optional) ==
    LET value == env[var_name]
    IN IF optional THEN [status |-> TRUE, lines |-> <<>>]
       ELSE IF expected_value # None
       THEN LET status == (value = expected_value)
            IN [status |-> status, lines |-> <<Line(var_name, status, value)>>]
       ELSE LET status == (value # None /\ value # Some(<<>>))
            IN [status |-> status, lines |-> <<Line(var_name, status, value)>>]

----------------------------------------------------------------------------
(* parse_url                                                               *)

Digits == {"0", "1", "2", "3", "4", "5", "6", "7", "8", "9"}

DigitVal(d) ==
    CASE d = "0" -> 0 [] d = "1" -> 1 [] d = "2" -> 2 [] d = "3" -> 3
      [] d = "4" -> 4 [] d = "5" -> 5 [] d = "6" -> 6 [] d = "7" -> 7
      [] d = "8" -> 8 [] d = "9" -> 9

RECURSIVE ToInt(_)
\* int() of a non-empty text of digits.
ToInt(t) == IF Len(t) = 1 THEN DigitVal(t[1])
            ELSE 10 * ToInt(SubSeq(t, 1, Len(t) - 1)) + DigitVal(t[Len(t)])

IsDigits(t) == t # <<>> /\ \A i \in 1..Len(t) : t[i] \in Digits

\* The positions of token c in text t.
Positions(t, c) == {i \in 1..Len(t) : t[i] = c}

Max(S) == CHOOSE x \in S : \A y \in S : y <= x
Min(S) == CHOOSE x \in S : \A y \in S : x <= y

\* urllib.parse.urlparse(url) followed by .hostname and .port: the network
\* location is what follows "scheme://" up to the first "/"; the host and
\* the port are what its last ":" separates.  A ValueError is raised for a
\* port that is not digits.
UrlParts(url) ==
    IF url = <<>> \/ url[1] # "http://"
    THEN [raised |-> FALSE, host |-> None, port |-> None]
    ELSE LET rest   == Tail(url)
             slash  == Positions(rest, "/")
             netloc == IF slash = {} THEN rest
                       ELSE SubSeq(rest, 1, Min(slash) - 1)
             colon  == Positions(netloc, ":")
             host   == IF colon = {} THEN netloc
                       ELSE SubSeq(netloc, 1, Max(colon) - 1)
             port   == IF colon = {} THEN <<>>
                       ELSE SubSeq(netloc, Max(colon) + 1, Len(netloc))
         IN IF port # <<>> /\ ~IsDigits(port)
            THEN [raised |-> TRUE, host |-> None, port |-> None]
            ELSE [raised |-> FALSE,
                  host |-> IF host = <<>> THEN None ELSE Some(host),
                  port |-> IF port = <<>> THEN None ELSE Some(ToInt(port))]

\* parse_url(url): the (host, port) pair.
parse_url(url) ==
    IF url = None \/ url = Some(<<>>)
    THEN [host |-> None, port |-> None]
    ELSE LET parsed == UrlParts(url[1])
         IN IF parsed.raised THEN [host |-> None, port |-> None]
            ELSE [host |-> parsed.host, port |-> parsed.port]

\* main's test 'if host and port': a None or empty host is falsy, and so
\* is a None or zero port.
HostAndPort(hp) ==
    /\ hp.host # None /\ hp.host # Some(<<>>)
    /\ hp.port # None /\ hp.port # Some(0)

----------------------------------------------------------------------------
(* The config file                                                         *)

\* A TOML document, as far as the checks read it: what `dist` and
\* `dist.auth` are (absent, a table, or a value that is no table) and the
\* three fields read by path.
Kinds == {"absent", "scalar", "table"}

Docs ==
    {d \in [dist : Kinds, scheduler_url : {None, Some(UrlGood)},
            auth : Kinds, type : {None, Some(<<"token">>), Some(<<"basic">>)},
            token : {None, Some(<<"abc">>)}] :
        /\ d.dist # "table" => d.scheduler_url = None /\ d.auth = "absent"
        /\ d.auth # "table" => d.type = None /\ d.token = None}

EmptyDoc == [dist |-> "absent", scheduler_url |-> None, auth |-> "absent",
             type |-> None, token |-> None]

\* A file: missing, not readable, text that is no TOML, or a TOML document.
File(state, doc) == [state |-> state, doc |-> doc]
MissingFile == File("missing", EmptyDoc)
Files == {MissingFile, File("unreadable", EmptyDoc), File("invalid", EmptyDoc)}
         \cup {File("ok", d) : d \in Docs}

\* config_path: SCCACHE_CONF, or the default when it is unset or empty.
config_path(env) ==
    IF Truthy(env["SCCACHE_CONF"]) THEN env["SCCACHE_CONF"][1] ELSE DefaultPath

\* open(config_path), f.read() and toml.loads(): the exception raised, ""
\* when the document is loaded.
LoadError(file) ==
    CASE file.state = "missing"    -> "FileNotFoundError"
      [] file.state = "unreadable" -> "PermissionError"
      [] file.state = "invalid"    -> "TomlDecodeError"
      [] OTHER                     -> ""

\* config.get('dist', {}).get('scheduler_url'): .get on a value that is no
\* table raises AttributeError.
GetSchedulerUrl(d) ==
    IF d.dist = "scalar" THEN [raised |-> TRUE, value |-> None]
    ELSE [raised |-> FALSE, value |-> d.scheduler_url]

\* config.get('dist', {}).get('auth', {}).get(key) for key 'type' or 'token'.
GetAuth(d, key) ==
    IF d.dist = "scalar" \/ d.auth = "scalar"
    THEN [raised |-> TRUE, value |-> None]
    ELSE [raised |-> FALSE, value |-> d[key]]

----------------------------------------------------------------------------
(* Text helpers: str.strip, str.startswith, str.split, int                 *)

Whitespace == {" ", "\n"}

RECURSIVE LStrip(_)
LStrip(t) == IF t # <<>> /\ Head(t) \in Whitespace THEN LStrip(Tail(t)) ELSE t

RECURSIVE RStrip(_)
RStrip(t) == IF t # <<>> /\ t[Len(t)] \in Whitespace
             THEN RStrip(SubSeq(t, 1, Len(t) - 1)) ELSE t

\* t.strip()
Strip(t) == RStrip(LStrip(t))

\* t.startswith(p)
StartsWith(t, p) == Len(t) >= Len(p) /\ SubSeq(t, 1, Len(p)) = p

RECURSIVE Split(_, _)
\* t.split(sep) for a one-character separator: never an empty list.
Split(t, sep) ==
    LET at == Positions(t, sep)
    IN IF at = {} THEN <<t>>
       ELSE <<SubSeq(t, 1, Min(at) - 1)>>
            \o Split(SubSeq(t, Min(at) + 1, Len(t)), sep)

\* Whether int(t) returns: digits, with whitespace around them allowed.
IsInt(t) == IsDigits(Strip(t))
Int_(t) == ToInt(Strip(t))

----------------------------------------------------------------------------
(* Docker: docker_container_running and docker_exec                        *)

\* The container name: SCCACHE_CONTAINER_NAME is taken as unset.
CONTAINER_NAME == <<"sccache-dist">>

\* What 'docker ps --filter name=^/NAME$ --format {{.Names}}' can end in:
\* a launch error, a non-zero exit, or the names found (none, or the
\* container's).
PsOutcomes ==
    Outcomes("docker ps", {"FileNotFoundError"}, {<<>>, CONTAINER_NAME})

\* What 'docker exec NAME cmd' can end in, once the container was seen
\* running; NoCall when it was not and the command never runs.
ExecOutcomes(ps, cmd, outs) ==
    IF Raised(ps) = "" /\ Strip(ps.stdout) = CONTAINER_NAME
    THEN Outcomes(cmd, {"FileNotFoundError", "PermissionError"}, outs)
    ELSE {NoCall}

\* docker_container_running(), given how its docker ps ended.
docker_container_running(ps) ==
    IF Raised(ps) # "" THEN FALSE
    ELSE Strip(ps.stdout) = CONTAINER_NAME

NotRunningMessage == <<"Container '">> \o CONTAINER_NAME \o <<"' is not running.">>

\* The mutant of docker_exec that runs the command without looking at the
\* container first.
docker_exec_unguarded(cmd, ps, ex) ==
    [success |-> Raised(ex) = "",
     text |-> IF Raised(ex) = "" THEN Strip(ex.stdout) ELSE <<"Error">>,
     calls |-> <<ex>>]

\* docker_exec(cmd_args), given how its docker ps (ps) and, if reached, its
\* docker exec (ex) ended: the pair returned and the subprocesses run.
docker_exec(cmd, ps, ex) ==
    IF ~docker_container_running(ps)
    THEN [success |-> FALSE, text |-> NotRunningMessage, calls |-> <<ps>>]
    ELSE LET e == Raised(ex)
             text == IF e = "" THEN Strip(ex.stdout)
                     ELSE IF e = "CalledProcessError" THEN <<"Error code">>
                     ELSE IF e = "FileNotFoundError" THEN <<"Docker not found">>
                     ELSE <<"Unexpected error">>
         IN [success |-> e = "", text |-> text, calls |-> <<ps, ex>>]

\* The (success, text) pair of a docker_exec result.
Pair(r) == [success |-> r.success, text |-> r.text]
NoPair == [success |-> FALSE, text |-> <<>>]

----------------------------------------------------------------------------
(* check_bubblewrap_in_container                                           *)

BwrapPrefix == <<"bubblewrap", " ">>

\* parse_version(v): the components as integers, (0,0,0) when one of them
\* is no integer.
parse_version(v) ==
    LET parts == Split(v, ".")
    IN IF \A i \in 1..Len(parts) : IsInt(parts[i])
       THEN [i \in 1..Len(parts) |-> Int_(parts[i])]
       ELSE <<0, 0, 0>>

\* Python's a >= b on tuples of integers: decided by the first position
\* where they differ, and by the lengths when one is a prefix of the other.
TupleGE(a, b) ==
    LET n    == IF Len(a) < Len(b) THEN Len(a) ELSE Len(b)
        diff == {i \in 1..n : a[i] # b[i]}
    IN IF diff = {} THEN Len(a) >= Len(b)
       ELSE a[Min(diff)] > b[Min(diff)]

\* The minimum version, (0, 3, 0).
needed == <<0, 3, 0>>

\* The version text left of bwrap's output: stripped, and without the
\* prefix word when it starts with it.
ver_line(text) ==
    IF StartsWith(Strip(text), BwrapPrefix)
    THEN SubSeq(Strip(text), Len(BwrapPrefix) + 1, Len(Strip(text)))
    ELSE Strip(text)

\* The mutant of is_ok in which a version that does not parse passes.
is_ok_fail_open(text) ==
    LET parts == Split(ver_line(text), ".")
    IN (\A i \in 1..Len(parts) : IsInt(parts[i]))
          => TupleGE(parse_version(ver_line(text)), needed)

\* is_ok: current >= needed.
is_ok(text) == TupleGE(parse_version(ver_line(text)), needed)

\* check_bubblewrap_in_container(), given what docker_exec returned: the
\* line printed.
check_bubblewrap_in_container(r) ==
    IF ~r.success
    THEN <<Line("Bubblewrap is installed in container", FALSE, Some(r.text))>>
    ELSE <<Line("Bubblewrap version >= 0.3.0 in container", is_ok(r.text),
                Some(r.text))>>

\* check_toolchain_cache_dir_in_container(), given what docker_exec returned.
check_toolchain_cache_dir_in_container(r) ==
    IF ~r.success
    THEN <<Line("Toolchain cache directory is accessible inside container",
                FALSE, Some(r.text))>>
    ELSE <<Line("Toolchain cache directory is accessible inside container",
                Strip(r.text) = <<"OK">>, None)>>

\* check_container_token(), given what docker_exec returned: the lines
\* printed (the function itself returns nothing main reads).
check_container_token(r, env, files) ==
    IF ~r.success
    THEN <<Line("Retrieve /root/.sccache_dist_token from container", FALSE,
                Some(r.text))>>
    ELSE LET container_token == r.text
             local_env_token == OrElse(env["SCCACHE_DIST_TOKEN"], <<>>)
             file == files[config_path(env)]
             first == <<Line("Retrieve /root/.sccache_dist_token from container",
                             TRUE, Some(container_token)),
                        Line("Container token matches local SCCACHE_DIST_TOKEN",
                             container_token = local_env_token, None)>>
         IN IF LoadError(file) = "FileNotFoundError"
            THEN Append(first,
                   Line("Local sccache config file NOT found for token check",
                        FALSE, Some(config_path(env))))
            ELSE IF LoadError(file) # "" \/ GetAuth(file.doc, "token").raised
            THEN Append(first,
                   Line("Error reading local sccache config file for token check",
                        FALSE, None))
            ELSE Append(first,
                   Line("Container token matches sccache config token",
                        OrElse(GetAuth(file.doc, "token").value, <<>>)
                            = container_token, None))

----------------------------------------------------------------------------
(* check_sccache_dist_installed and check_sccache_processes                *)

\* The exceptions check_sccache_dist_installed catches.
InstalledCaught == {"CalledProcessError", "FileNotFoundError"}

\* process_ids: the output of pgrep, stripped and split on newlines.
process_ids(stdout) == Split(Strip(stdout), "\n")

\* The mutant of check_sccache_processes that does not look at pgrep's exit
\* status (subprocess.run without check=True).
check_sccache_processes_unchecked(c) ==
    IF c.raised # "" THEN FALSE ELSE Len(process_ids(c.stdout)) > 0

\* check_sccache_processes(), given how pgrep ended: the status reported.
\* bool(process_ids) is whether the list is non-empty.
check_sccache_processes(c) ==
    IF Raised(c) # "" THEN FALSE ELSE Len(process_ids(c.stdout)) > 0

\* How 'pgrep -f sccache-dist' can end: a launch error; exit status 1 (no
\* process matched) or 2 (an error) with nothing printed; exit status 0
\* with its output ("7" stands for a digit of a process id).
PgrepOutcomes ==
    {Call("pgrep", "FileNotFoundError", 0, <<>>)}
    \cup {Call("pgrep", "", rc, <<>>) : rc \in {1, 2}}
    \cup {Call("pgrep", "", 0, o) : o \in TextsUpTo({"7", "\n"}, MaxPgrepLen)}

----------------------------------------------------------------------------
(* main: the config checks and the runtime checks                          *)

\* The mutant of the config block that counts each of the four derived
\* checks as failed when the file cannot be loaded.
config_block_four_failures(file, env) ==
    IF LoadError(file) # "" THEN <<FALSE, FALSE, FALSE, FALSE>>
    ELSE LET d == file.doc
         IN <<d.scheduler_url # None, d.type = Some(<<"token">>),
              d.token = env["SCCACHE_DIST_TOKEN"],
              d.scheduler_url = env["SCCACHE_SCHEDULER_URL"]>>

\* The mutant of the config block that reads the environment's token as
\* check_container_token does, an unset variable as "".
config_block_token_default(file, env) ==
    IF LoadError(file) # "" \/ file.doc.dist = "scalar" THEN <<FALSE>>
    ELSE IF file.doc.auth = "scalar" THEN <<file.doc.scheduler_url # None, FALSE>>
    ELSE LET d == file.doc
         IN <<d.scheduler_url # None, d.type = Some(<<"token">>),
              d.token = Some(OrElse(env["SCCACHE_DIST_TOKEN"], <<>>)),
              d.scheduler_url = env["SCCACHE_SCHEDULER_URL"]>>

\* The try block that fills config_checks: every statement appends one
\* entry, and the first exception ends the block with one more entry, False.
config_block(file, env) ==
    IF LoadError(file) # "" THEN <<FALSE>>
    ELSE LET d  == file.doc
             c0 == <<>>
             scheduler_url == GetSchedulerUrl(d)
             c1 == Append(c0, scheduler_url.value # None)
             auth_type == GetAuth(d, "type")
             c2 == Append(c1, auth_type.value = Some(<<"token">>))
             config_token == GetAuth(d, "token")
             env_token == env["SCCACHE_DIST_TOKEN"]
             c3 == Append(c2, config_token.value = env_token)
             env_scheduler_url == env["SCCACHE_SCHEDULER_URL"]
             c4 == Append(c3, scheduler_url.value = env_scheduler_url)
         IN IF scheduler_url.raised THEN Append(c0, FALSE)
            ELSE IF auth_type.raised THEN Append(c1, FALSE)
            ELSE IF config_token.raised THEN Append(c2, FALSE)
            ELSE c4

\* The builder's port.
BuilderPort == 10501

\* One TCP connection attempt.
Connect(host, port) == [host |-> host, port |-> port]

\* The runtime block, given whether the two connections succeed (c1, c2):
\* the entries of runtime_checks and the connections attempted.
runtime_block(env, c1, c2) ==
    LET hp == parse_url(env["SCCACHE_SCHEDULER_URL"])
    IN IF HostAndPort(hp)
       THEN [checks |-> <<c1, c2>>,
             connects |-> <<Connect(hp.host[1], hp.port[1]),
                            Connect(hp.host[1], BuilderPort)>>]
       ELSE [checks |-> <<FALSE>>, connects |-> <<>>]

\* The mutant of the exit test that exits 0 when any check passed.
exit_for_any(passed, total) == IF passed > 0 THEN 0 ELSE 1

\* sys.exit(0) if passed_checks == total_checks, sys.exit(1) otherwise.
exit_for(passed, total) == IF passed = total THEN 0 ELSE 1

----------------------------------------------------------------------------
(* get_sccache_output                                                      *)

\* How 'sccache <command>' can end within get_sccache_output: a launch
\* error, the 10 s timeout, or any exit status (none is checked) with output.
SccacheOutcomes(cmd) ==
    {Call(cmd, e, 0, <<>>) : e \in {"FileNotFoundError", "TimeoutExpired"}}
    \cup {Call(cmd, "", rc, <<" ", "status", "\n">>) : rc \in {0, 1}}

\* get_sccache_output(command): the text returned.
get_sccache_output(c) ==
    IF c.raised = "" THEN Strip(c.stdout)
    ELSE IF c.raised = "TimeoutExpired" THEN <<"Timeout expired">>
    ELSE <<"Error running sccache">>

----------------------------------------------------------------------------
(* The run of main()                                                       *)

\* A run starts with an environment and the file its config path names in
\* one of the states of Files; the other path names no file.
Init ==
    /\ environ \in Environments
    /\ \E f \in Files :
          fs = [p \in Paths |-> IF p = config_path(environ) THEN f
                                ELSE MissingFile]
    /\ pc = "container"
    /\ calls = <<>>
    /\ lines = <<>>
    /\ result = NoPair
    /\ connects = <<>>
    /\ env_checks = <<>>
    /\ config_checks = <<>>
    /\ runtime_checks = <<>>
    /\ total_checks = None
    /\ passed_checks = None
    /\ exit_status = None

Tally == <<env_checks, config_checks, runtime_checks, total_checks,
           passed_checks, connects>>

\* main, lines 212-220: is the container running?
ContainerRunning ==
    /\ pc = "container"
    /\ \E ps \in PsOutcomes :
          LET is_running == docker_container_running(ps)
          IN /\ calls' = <<ps>>
             /\ lines' = <<Line("Docker container is running", is_running, None)>>
             /\ pc' = IF is_running THEN "token" ELSE "installed"
    /\ result' = NoPair
    /\ UNCHANGED <<environ, fs, exit_status>>
    /\ UNCHANGED Tally

\* main, line 216: check_container_token().
ContainerToken ==
    /\ pc = "token"
    /\ \E ps \in PsOutcomes :
       \E ex \in ExecOutcomes(ps, "docker exec cat", {<<"abc">>, <<"zzz">>}) :
          LET r == docker_exec("cat", ps, ex)
          IN /\ calls' = r.calls
             /\ result' = Pair(r)
             /\ lines' = check_container_token(r, environ, fs)
    /\ pc' = "bwrap"
    /\ UNCHANGED <<environ, fs, exit_status>>
    /\ UNCHANGED Tally

\* main, line 217: check_bubblewrap_in_container(), bwrap printing one of
\* `versions`.
Bubblewrap(versions) ==
    /\ pc = "bwrap"
    /\ \E ps \in PsOutcomes :
       \E ex \in ExecOutcomes(ps, "docker exec bwrap", versions) :
          LET r == docker_exec("bwrap", ps, ex)
          IN /\ calls' = r.calls
             /\ result' = Pair(r)
             /\ lines' = check_bubblewrap_in_container(r)
    /\ pc' = "toolchain"
    /\ UNCHANGED <<environ, fs, exit_status>>
    /\ UNCHANGED Tally

\* main, line 218: check_toolchain_cache_dir_in_container().
Toolchain ==
    /\ pc = "toolchain"
    /\ \E ps \in PsOutcomes :
       \E ex \in ExecOutcomes(ps, "docker exec sh", {<<"OK">>, <<"NO">>}) :
          LET r == docker_exec("sh", ps, ex)
          IN /\ calls' = r.calls
             /\ result' = Pair(r)
             /\ lines' = check_toolchain_cache_dir_in_container(r)
    /\ pc' = "installed"
    /\ UNCHANGED <<environ, fs, exit_status>>
    /\ UNCHANGED Tally

\* main, line 223: check_sccache_dist_installed().  An exception it does not
\* catch leaves main: the interpreter prints the traceback and exits 1.
DistInstalled ==
    /\ pc = "installed"
    /\ \E c \in Outcomes("sccache-dist --version",
                       {"FileNotFoundError", "PermissionError"},
                       {<<"sccache-dist">>}) :
          /\ calls' = <<c>>
          /\ IF Raised(c) = "" \/ Raised(c) \in InstalledCaught
             THEN /\ lines' = <<Line("sccache-dist is installed",
                                     Raised(c) = "", None)>>
                  /\ pc' = "processes"
                  /\ UNCHANGED exit_status
             ELSE /\ lines' = <<>>
                  /\ pc' = "traceback"
                  /\ exit_status' = Some(1)
    /\ result' = NoPair
    /\ UNCHANGED <<environ, fs>>
    /\ UNCHANGED Tally

\* main, line 224: check_sccache_processes().
Processes ==
    /\ pc = "processes"
    /\ \E c \in PgrepOutcomes :
          /\ calls' = <<c>>
          /\ lines' = <<Line("sccache-dist processes are running",
                             check_sccache_processes(c), None)>>
    /\ pc' = "docker"
    /\ result' = NoPair
    /\ UNCHANGED <<environ, fs, exit_status>>
    /\ UNCHANGED Tally

\* main, lines 228-232: docker --version.
DockerVersion ==
    /\ pc = "docker"
    /\ \E c \in Outcomes("docker --version", {"FileNotFoundError"},
                       {<<"Docker version">>}) :
          /\ calls' = <<c>>
          /\ lines' = <<Line("Docker is installed", Raised(c) = "", None)>>
    /\ pc' = "dist_status"
    /\ result' = NoPair
    /\ UNCHANGED <<environ, fs, exit_status>>
    /\ UNCHANGED Tally

\* main, lines 235 and 238: print(get_dist_status()), print(get_dist_auth()).
PrintSccacheOutput(at, command, next) ==
    /\ pc = at
    /\ \E c \in SccacheOutcomes(command) :
          /\ calls' = <<c>>
          /\ result' = [success |-> c.raised = "", text |-> get_sccache_output(c)]
    /\ lines' = <<>>
    /\ pc' = next
    /\ UNCHANGED <<environ, fs, exit_status>>
    /\ UNCHANGED Tally

\* main, lines 242-249: the token, read from the container once more.
TokenDump ==
    /\ pc = "token_dump"
    /\ \E ps \in PsOutcomes :
       \E ex \in ExecOutcomes(ps, "docker exec cat", {<<"abc">>, <<"zzz">>}) :
          LET r == docker_exec("cat", ps, ex)
          IN /\ calls' = r.calls
             /\ result' = Pair(r)
    /\ lines' = <<>>
    /\ pc' = "env"
    /\ UNCHANGED <<environ, fs, exit_status>>
    /\ UNCHANGED Tally

\* main, lines 254-262: the four required variables, then the two optional
\* ones, whose results are dropped.
EnvChecks ==
    /\ pc = "env"
    /\ LET a == check_env_var(environ, "SCCACHE_NO_DAEMON", Some(<<"1">>), FALSE)
           b == check_env_var(environ, "SCCACHE_DIST_AUTH", Some(<<"token">>), FALSE)
           c == check_env_var(environ, "SCCACHE_DIST_TOKEN", None, FALSE)
           d == check_env_var(environ, "SCCACHE_SCHEDULER_URL", None, FALSE)
           e == check_env_var(environ, "SCCACHE_LOG", None, TRUE)
           f == check_env_var(environ, "SCCACHE_CONF", None, TRUE)
       IN /\ env_checks' = <<a.status, b.status, c.status, d.status>>
          /\ lines' = a.lines \o b.lines \o c.lines \o d.lines \o e.lines
                      \o f.lines
    /\ pc' = "config"
    /\ calls' = <<>>
    /\ result' = NoPair
    /\ UNCHANGED <<environ, fs, exit_status, config_checks, runtime_checks,
                   total_checks, passed_checks, connects>>

\* main, lines 267-307: the config file.
ConfigChecks ==
    /\ pc = "config"
    /\ config_checks' = config_block(fs[config_path(environ)], environ)
    /\ pc' = "runtime"
    /\ calls' = <<>>
    /\ lines' = <<>>
    /\ result' = NoPair
    /\ UNCHANGED <<environ, fs, exit_status, env_checks, runtime_checks,
                   total_checks, passed_checks, connects>>

\* main, lines 309-330: the connectivity checks.
RuntimeChecks ==
    /\ pc = "runtime"
    /\ \E c1 \in BOOLEAN, c2 \in BOOLEAN :
          LET r == runtime_block(environ, c1, c2)
          IN /\ runtime_checks' = r.checks
             /\ connects' = r.connects
    /\ pc' = "summary"
    /\ calls' = <<>>
    /\ lines' = <<>>
    /\ result' = NoPair
    /\ UNCHANGED <<environ, fs, exit_status, env_checks, config_checks,
                   total_checks, passed_checks>>

\* main, lines 332-342: the summary and the exit.
Summary ==
    /\ pc = "summary"
    /\ LET total  == Len(env_checks) + Len(config_checks) + Len(runtime_checks)
           passed == Sum(env_checks) + Sum(config_checks) + Sum(runtime_checks)
       IN /\ total_checks' = Some(total)
          /\ passed_checks' = Some(passed)
          /\ exit_status' = Some(exit_for(passed, total))
    /\ pc' = "exited"
    /\ calls' = <<>>
    /\ lines' = <<>>
    /\ result' = NoPair
    /\ UNCHANGED <<environ, fs, env_checks, config_checks, runtime_checks,
                   connects>>

\* The version texts bwrap prints in a whole run of main().
RunVersions ==
    {BwrapPrefix \o v : v \in TextsUpTo({"1", "x"}, MaxRunVerLen)}

Next ==
    \/ ContainerRunning
    \/ ContainerToken
    \/ Bubblewrap(RunVersions)
    \/ Toolchain
    \/ DistInstalled
    \/ Processes
    \/ DockerVersion
    \/ PrintSccacheOutput("dist_status", "sccache --dist-status", "dist_auth")
    \/ PrintSccacheOutput("dist_auth", "sccache --dist-auth", "token_dump")
    \/ TokenDump
    \/ EnvChecks
    \/ ConfigChecks
    \/ RuntimeChecks
    \/ Summary

Spec == Init /\ [][Next]_vars

----------------------------------------------------------------------------
(* check_bubblewrap_in_container on every short version text               *)

\* The version texts of at most MaxVerLen characters, with and without the
\* prefix word.
AllVersions ==
    LET bodies == TextsUpTo({"0", "1", "3", ".", "x"}, MaxVerLen)
    IN bodies \cup {BwrapPrefix \o v : v \in bodies}

\* A run in a matching environment and config.
GoodEnv ==
    [SCCACHE_NO_DAEMON |-> Some(<<"1">>), SCCACHE_DIST_AUTH |-> Some(<<"token">>),
     SCCACHE_DIST_TOKEN |-> Some(<<"abc">>),
     SCCACHE_SCHEDULER_URL |-> Some(UrlGood), SCCACHE_LOG |-> None,
     SCCACHE_CONF |-> None]

GoodDoc == [dist |-> "table", scheduler_url |-> Some(UrlGood), auth |-> "table",
            type |-> Some(<<"token">>), token |-> Some(<<"abc">>)]

GoodFs == [p \in Paths |-> IF p = DefaultPath THEN File("ok", GoodDoc)
                           ELSE MissingFile]

\* The state of that run once check_container_token() has read the token.
InitBwrap ==
    LET ps == Call("docker ps", "", 0, CONTAINER_NAME)
        ex == Call("docker exec cat", "", 0, <<"abc">>)
        r  == docker_exec("cat", ps, ex)
    IN /\ environ = GoodEnv
       /\ fs = GoodFs
       /\ pc = "bwrap"
       /\ calls = r.calls
       /\ lines = check_container_token(r, GoodEnv, GoodFs)
       /\ result = Pair(r)
       /\ connects = <<>>
       /\ env_checks = <<>>
       /\ config_checks = <<>>
       /\ runtime_checks = <<>>
       /\ total_checks = None
       /\ passed_checks = None
       /\ exit_status = None

NextBwrap == Bubblewrap(AllVersions)

\* check_bubblewrap_in_container() in that run, bwrap printing any text of
\* AllVersions.
SpecBwrap == InitBwrap /\ [][NextBwrap]_vars

----------------------------------------------------------------------------
(* The claims.                                                             *)

\* The number of True entries of a list of booleans.
Trues(bs) == Cardinality({i \in 1..Len(bs) : bs[i]})

\* The file main's config block opens.
ConfigFile == fs[config_path(environ)]

\* The config block has run.
AfterConfig == pc \in {"runtime", "summary", "exited"}

\* The runtime block has run.
AfterRuntime == pc \in {"summary", "exited"}

\* C1: a run that reaches the summary counts the entries of the three lists
\* as attempted and their True entries as passed, and exits with status 0 if
\* and only if the two counts are equal, with status 1 otherwise; no run
\* ends with a status other than 0 or 1.
C1_ExitZeroIffAllPassed ==
    /\ exit_status \in {None, Some(0), Some(1)}
    /\ pc = "exited" =>
          LET attempted == Len(env_checks) + Len(config_checks)
                           + Len(runtime_checks)
              passed    == Trues(env_checks) + Trues(config_checks)
                           + Trues(runtime_checks)
          IN /\ total_checks = Some(attempted)
             /\ passed_checks = Some(passed)
             /\ (exit_status = Some(0)) <=> (passed = attempted)
             /\ (exit_status = Some(1)) <=> (passed # attempted)

\* C1's case: a run in which some but not all checks passed has exited 1.
C1_Witness ==
    /\ pc = "exited"
    /\ exit_status = Some(1)
    /\ passed_checks = Some(9)
    /\ total_checks = Some(10)

\* C2: when the config file is missing or its text is no TOML, config_checks
\* is the single entry False, so the config group adds 1 to attempted and 0
\* to passed.
C2_UnloadableConfigIsOneFailure ==
    (AfterConfig /\ ConfigFile.state \in {"missing", "invalid"}) =>
        /\ config_checks = <<FALSE>>
        /\ pc = "exited" =>
              /\ total_checks = Some(Len(env_checks) + 1 + Len(runtime_checks))
              /\ passed_checks = Some(Trues(env_checks) + Trues(runtime_checks))

\* C2's case: a run with no config file has reached the summary.
C2_Witness ==
    /\ pc = "exited"
    /\ ConfigFile.state = "missing"
    /\ config_checks = <<FALSE>>
    /\ total_checks = Some(7)

\* C3 as claimed: whatever the external calls end in, no exception leaves
\* main(): a run that ends has run every check and ends at the summary.
C3_NoExceptionLeavesMain ==
    /\ pc # "traceback"
    /\ exit_status # None => pc = "exited"

\* The version text left of bwrap's output once the prefix word is taken off.
C4_VersionText ==
    IF StartsWith(result.text, BwrapPrefix)
    THEN SubSeq(result.text, Len(BwrapPrefix) + 1, Len(result.text))
    ELSE result.text

\* The text is dot-separated integers whose tuple is at least (0, 3, 0):
\* the first is positive, or it is 0 and the second is above 3, or the
\* second is 3 and a third is there (no integer is below 0).
C4_AtLeastNeeded ==
    LET parts == Split(C4_VersionText, ".")
    IN /\ \A i \in 1..Len(parts) : IsDigits(parts[i])
       /\ \/ ToInt(parts[1]) > 0
          \/ /\ Len(parts) >= 2
             /\ \/ ToInt(parts[2]) > 3
                \/ ToInt(parts[2]) = 3 /\ Len(parts) >= 3

C5_WellFormed ==
    /\ ConfigFile.state = "ok"
    /\ ConfigFile.doc.dist # "scalar"
    /\ ConfigFile.doc.auth # "scalar"

\* C5: with a well-formed config file the four entries of config_checks are
\* decided one by one: scheduler_url is there, auth.type is "token",
\* auth.token is the environment's SCCACHE_DIST_TOKEN, scheduler_url is the
\* environment's SCCACHE_SCHEDULER_URL.
C5_ConfigChecksIndependent ==
    (AfterConfig /\ C5_WellFormed) =>
        LET d == ConfigFile.doc
        IN /\ Len(config_checks) = 4
           /\ config_checks[1] <=> (d.scheduler_url # None)
           /\ config_checks[2] <=> (d.type = Some(<<"token">>))
           /\ config_checks[3] <=> (d.token = environ.SCCACHE_DIST_TOKEN)
           /\ config_checks[4] <=>
                 (d.scheduler_url = environ.SCCACHE_SCHEDULER_URL)

\* C5's case: the config matches the environment but for the token, and
\* only the token check failed.
C5_Witness ==
    /\ AfterConfig
    /\ ConfigFile = File("ok", GoodDoc)
    /\ environ.SCCACHE_DIST_TOKEN = Some(<<"xyz">>)
    /\ environ.SCCACHE_SCHEDULER_URL = Some(UrlGood)
    /\ config_checks = <<TRUE, TRUE, FALSE, TRUE>>

\* C6 as claimed: when parse_url gives a pair with a null component no
\* connection is attempted and runtime_checks is one failure; when it gives
\* a host and a port, the scheduler at host:port and then the builder at
\* host:10501 are tried and runtime_checks has two entries.
C6_TwoProbesWhenHostAndPort ==
    AfterRuntime =>
        LET hp == parse_url(environ.SCCACHE_SCHEDULER_URL)
        IN IF hp.host = None \/ hp.port = None
           THEN connects = <<>> /\ runtime_checks = <<FALSE>>
           ELSE /\ connects = <<Connect(hp.host[1], hp.port[1]),
                                Connect(hp.host[1], BuilderPort)>>
                /\ Len(runtime_checks) = 2

\* C7 as claimed: the exit status depends on the three tallied lists alone:
\* a run that has exited has filled them, and its status is 0 exactly when
\* every entry of the three is True, whatever the other checks ended in.
C7_ExitFromTalliedGroupsOnly ==
    exit_status # None =>
        /\ Len(env_checks) = 4
        /\ Len(config_checks) >= 1
        /\ Len(runtime_checks) >= 1
        /\ (exit_status = Some(0)) <=>
              (\A i \in 1..Len(env_checks \o config_checks \o runtime_checks) :
                    (env_checks \o config_checks \o runtime_checks)[i])

\* A docker exec call.
C8_IsExec(c) ==
    c.cmd \in {"docker exec cat", "docker exec bwrap", "docker exec sh"}

\* A docker ps call that returned the container's name.
C8_SawContainer(c) ==
    c.cmd = "docker ps" /\ c.raised = "" /\ c.rc = 0 /\ c.stdout = CONTAINER_NAME

\* The four steps of main that go through docker_exec.
C8_ExecSteps == {"token", "bwrap", "toolchain", "token_dump"}

\* Every docker exec follows at once a docker ps that returned the name.
C8_ExecPreceded ==
    \A i \in 1..Len(calls) :
        C8_IsExec(calls[i]) => i > 1 /\ C8_SawContainer(calls[i - 1])

\* A docker_exec whose docker ps does not return the name runs nothing more
\* and returns the failure saying that the container is not running.
C8_ShortCircuit ==
    (pc \in C8_ExecSteps /\ ~C8_SawContainer(calls'[1])) =>
        /\ Len(calls') = 1
        /\ result' = [success |-> FALSE, text |-> NotRunningMessage]

\* A docker_exec whose docker ps returns the name runs docker exec next.
C8_RunsWhenSeen ==
    (pc \in C8_ExecSteps /\ C8_SawContainer(calls'[1])) =>
        Len(calls') = 2 /\ C8_IsExec(calls'[2])

\* main's own check: when it fails, the three in-container checks are
\* skipped; when it succeeds, they come next.
C8_MainSkips ==
    pc = "container" =>
        pc' = IF C8_SawContainer(calls'[1]) THEN "token" ELSE "installed"

\* C8: every docker exec is immediately preceded by a docker ps that
\* returned the container's name; when that docker ps does not, docker exec
\* is not run and the operation fails with the message that the container is
\* not running; and main skips the three in-container checks when its own
\* docker ps does not return the name.
C8_ContainerRunningPrecondition ==
    /\ []C8_ExecPreceded
    /\ [][C8_ShortCircuit /\ C8_RunsWhenSeen /\ C8_MainSkips]_vars

\* C8's case: the token was read with docker exec, right after docker ps.
C8_Witness ==
    /\ pc = "bwrap"
    /\ Len(calls) = 2
    /\ C8_SawContainer(calls[1])
    /\ calls[2].cmd = "docker exec cat"
    /\ result.success

\* pgrep has run and printed no process id.
C9_ZeroMatches ==
    /\ pc = "docker"
    /\ calls[1].raised = ""
    /\ Positions(calls[1].stdout, "7") = {}

\* C9 as claimed: when pgrep finds no matching process, the processes check
\* still reports PASS.
C9_ZeroMatchesPass == C9_ZeroMatches => lines[1].status

\* C9 as amended: the list split from pgrep's output is never empty, so the
\* check reports PASS exactly when pgrep was launched and exited with status
\* 0, whatever it printed; with no matching process pgrep exits with status
\* 1 and the check reports FAIL.
C9_PassIffPgrepExitsZero ==
    pc = "docker" =>
        /\ Len(process_ids(calls[1].stdout)) >= 1
        /\ lines[1].status <=> (calls[1].raised = "" /\ calls[1].rc = 0)

\* C9's case: pgrep matched nothing, exited 1, and the check reported FAIL.
C9_Witness ==
    /\ C9_ZeroMatches
    /\ calls[1].rc = 1
    /\ ~lines[1].status

\* C10 as claimed: at the summary env_checks has 4 entries, config_checks 1
\* or 4 and runtime_checks 1 or 2, so that 0 <= passed <= attempted and
\* attempted is 6, 7, 9 or 10.
C10_TallyShape ==
    pc = "exited" =>
        /\ Len(env_checks) = 4
        /\ Len(config_checks) \in {1, 4}
        /\ Len(runtime_checks) \in {1, 2}
        /\ 0 <= passed_checks[1]
        /\ passed_checks[1] <= total_checks[1]
        /\ total_checks[1] \in {6, 7, 9, 10}

====
